---- MODULE Spec2Model ----
(***************************************************************************)
(* Real-time presence, delivery and read-state layer of ChuckleChain:      *)
(* the socket.io session store (backend/socket.js), the messages           *)
(* controller (backend/controllers/messages.js) and the notification       *)
(* branches of the posts and users controllers.                            *)
(*                                                                         *)
(* Identities: user ids are 1..NumUsers, socket ids are 1..MaxSockets.     *)
(* A socket.io room is named by a string; the name of a socket's own room  *)
(* (its socket.id) is written <<"sid", h>> and the string form of a user   *)
(* id <<"uid", u>>, so that the two name spaces stay distinct.             *)
(***************************************************************************)
EXTENDS Integers, Sequences, FiniteSets, TLC

\* ------------------------------------------------------------- bounds
NumUsers == 3
MaxSockets == 2
MaxClientEvents == 1
MaxRequests == 2
\* The socket-lifecycle runs: users whose tokens are presented.
SockUsers == 2
\* The read-state runs: sockets that connect, messages the database starts with.
ReadSockets == 1
MaxInitMsgs == 1
\* The routing runs: requests made.
RouteRequests == 1
\* The notification runs: requests of the posts routes, users tagged or mentioned.
MaxPostOps == 2
MaxMentions == 1
\* The inbox runs: notifications the database starts with.
MaxInitNotifications == 1

Users == 1..NumUsers
\* Every socket id of the model; the presence runs use them all.
PresenceSockets == 4
\* The fault runs: transports that fail.
MaxFailures == 1
Handles == 1..PresenceSockets
ReqIds == 1..MaxRequests

\* JavaScript's undefined / a Map miss.
Undefined == 0
\* An id a well-formed token can carry although no User document has it.
GhostId == NumUsers + 1

VARIABLES
    sock,         \* socket id -> the socket: handshake credential, lifecycle, socket.user
    activeUsers,  \* Map userId -> socket.id, as its set of entries <<key, value>>
    lastSeenTimestamps, \* Map userId -> Date, as its set of entries
    emitted,      \* every emit the server made, in order, with the sockets that received it
    clock,        \* the wall clock read by new Date() / Date.now()
    clientEvents, \* client -> server socket events handled so far
    conversations, \* the Conversation collection
    messages,     \* the Message collection
    nextMsgId,    \* ids handed out by Message.create so far
    reqs,         \* the HTTP requests in flight or answered, each at its await
    posts,        \* the Post collection, a post's id being its index
    notifications, \* the Notification collection
    following,    \* <<a, b>>: b is in a's following and a in b's followers
    postOps,      \* requests of the posts routes handled so far
    postRes       \* the response of the posts route handled last

sockVars == <<sock, activeUsers, lastSeenTimestamps, clientEvents>>
dbVars == <<conversations, messages, nextMsgId>>
socialVars == <<posts, notifications, following, postOps, postRes>>
vars == <<sock, activeUsers, lastSeenTimestamps, emitted, clock, clientEvents,
          conversations, messages, nextMsgId, reqs, posts, notifications, following,
          postOps, postRes>>

\* ------------------------------------------------------------- Map
MapHas(m, k) == \E e \in m : e[1] = k
MapGet(m, k) == IF MapHas(m, k) THEN (CHOOSE e \in m : e[1] = k)[2] ELSE Undefined
\* Map.delete that leaves the entry in place.
MapKeep(m, k) == m
MapDelete(m, k) == {e \in m : e[1] # k}
\* Map.set that adds the entry without replacing the one under the same key.
MapSetKeepOld(m, k, v) == m \cup {<<k, v>>}
MapSet(m, k, v) == MapDelete(m, k) \cup {<<k, v>>}
\* The values of the Map in place of its keys.
MapValues(m) == {e[2] : e \in m}
\* Array.from(m.keys()), as the set of its elements
MapKeys(m) == {e[1] : e \in m}

\* ------------------------------------------------------------- socket.io
SocketRoom(h) == <<"sid", h>>
UserRoom(u) == <<"uid", u>>

\* The sockets of the namespace: connected and not yet disconnected.
Connected == {h \in Handles : sock[h].state = "open"}

\* Every socket joins exactly one room on connection, the one named by its id.
Rooms(h) == {SocketRoom(h)}

\* A write loop that stops at the first socket, in id order, whose write fails.
WrittenUntilFailure(recv) ==
    {h \in recv : \A g \in recv : g <= h => ~sock[g].broken}
\* The adapter writes the packet to each socket of the audience in turn; a socket whose
\* transport no longer takes writes drops the packet and the loop goes on.
Written(recv) == {h \in recv : ~sock[h].broken}

\* io.to(room).emit: the connected sockets that are in the room.
InRoom(room) == Written({h \in Connected : room \in Rooms(h)})

\* A broadcast that reaches the sender as well.
Everyone(h) == Written(Connected)
\* socket.broadcast.emit: every connected socket but the sender.
Others(h) == Written(Connected \ {h})

\* Date.prototype.toISOString(): the string that names the instant, to the millisecond
toISOString(date) == <<"iso", date>>

Emit(ev, recv, payload, origin) ==
    [ev |-> ev, to |-> recv, payload |-> payload, origin |-> origin]

\* ------------------------------------------------------------- handshake
\* No token; a token jwt.verify rejects (it names user 1, say); a token jwt.verify
\* accepts, carrying the id of a user or of no user.
Credentials ==
    {[kind |-> "none", id |-> Undefined], [kind |-> "bad", id |-> 1]}
        \cup {[kind |-> "jwt", id |-> i] : i \in Users \cup {GhostId}}

\* The token decoded without verifying it.
ResolveUserUnverified(cred) == IF cred.id \in Users THEN cred.id ELSE Undefined
\* jwt.verify followed by User.findById: the user the credential resolves to.
ResolveUser(cred) ==
    IF cred.kind = "jwt" /\ cred.id \in Users THEN cred.id ELSE Undefined

AuthError(cred) ==
    CASE cred.kind = "none" -> "Authentication error: No token provided"
      [] cred.kind = "bad" -> "Authentication error"
      [] cred.kind = "jwt" /\ cred.id \notin Users -> "User not found"
      [] OTHER -> ""

FreshSocket == [state |-> "fresh", cred |-> [kind |-> "none", id |-> Undefined],
                user |-> Undefined, err |-> "", broken |-> FALSE]

\* io.use(async (socket, next) => ...): refuse, or bind socket.user.
Authenticate(h, cred) ==
    /\ sock[h].state = "fresh"
    /\ \A g \in Handles : g < h => sock[g].state # "fresh"
    /\ sock' = [sock EXCEPT ![h] =
          IF ResolveUser(cred) = Undefined
          THEN [state |-> "refused", cred |-> cred, user |-> Undefined,
                err |-> AuthError(cred), broken |-> FALSE]
          ELSE [state |-> "authed", cred |-> cred, user |-> ResolveUser(cred),
                err |-> "", broken |-> FALSE]]
    /\ UNCHANGED <<socialVars, activeUsers, lastSeenTimestamps, emitted, clock, clientEvents,
                   dbVars, reqs>>

\* io.on("connection", (socket) => ...)
Connection(h) ==
    /\ sock[h].state = "authed"
    /\ LET userId == sock[h].user
           active == MapSet(activeUsers, userId, h)
       IN /\ sock' = [sock EXCEPT ![h].state = "open"]
          /\ activeUsers' = active
          /\ lastSeenTimestamps' = MapDelete(lastSeenTimestamps, userId)
          /\ emitted' = emitted \o
                <<Emit("userConnected", Others(h), [userId |-> userId], SocketRoom(h)),
                  Emit("welcome", {h}, [message |-> "Socket connection established"],
                       SocketRoom(h)),
                  Emit("onlineUsers", {h}, [users |-> MapKeys(active)], SocketRoom(h))>>
    /\ UNCHANGED <<socialVars, clock, clientEvents, dbVars, reqs>>

\* The transport of an open socket stops taking writes; its disconnect event has not
\* been handled yet.
TransportFails(h) ==
    /\ sock[h].state = "open"
    /\ ~sock[h].broken
    /\ Cardinality({g \in Handles : sock[g].broken}) < MaxFailures
    /\ sock' = [sock EXCEPT ![h].broken = TRUE]
    /\ UNCHANGED <<socialVars, activeUsers, lastSeenTimestamps, emitted, clock, clientEvents,
                   dbVars, reqs>>

\* socket.on("disconnect", () => ...)
Disconnect(h) ==
    /\ sock[h].state = "open"
    /\ LET userId == sock[h].user
           now == clock
       IN /\ sock' = [sock EXCEPT ![h].state = "closed"]
          /\ lastSeenTimestamps' = MapSet(lastSeenTimestamps, userId, now)
          /\ activeUsers' = MapDelete(activeUsers, userId)
          /\ emitted' = Append(emitted,
                Emit("userDisconnected", Others(h),
                     [userId |-> userId, timestamp |-> toISOString(now)], SocketRoom(h)))
          /\ clock' = clock + 1
    /\ UNCHANGED <<socialVars, clientEvents, dbVars, reqs>>

\* socket.on("getOnlineUsers", () => ...)
GetOnlineUsers(h) ==
    /\ sock[h].state = "open"
    /\ clientEvents < MaxClientEvents
    /\ clientEvents' = clientEvents + 1
    /\ emitted' = Append(emitted,
          Emit("onlineUsers", {h}, [users |-> MapKeys(activeUsers)], SocketRoom(h)))
    /\ UNCHANGED <<socialVars, sock, activeUsers, lastSeenTimestamps, clock, dbVars, reqs>>

ConvIds == {c.id : c \in conversations}

\* socket.on("messagesRead", ({ conversationId, userId }) => ...)
MessagesRead(h, conversationId, userId) ==
    /\ sock[h].state = "open"
    /\ clientEvents < MaxClientEvents
    /\ clientEvents' = clientEvents + 1
    /\ LET recipientSocketId == MapGet(activeUsers, userId)
           own == Emit("updateUnreadCount", {h}, [none |-> TRUE], SocketRoom(h))
       IN emitted' =
            IF recipientSocketId # Undefined
            THEN emitted \o
                   <<own,
                     Emit("messageRead", InRoom(SocketRoom(recipientSocketId)),
                          [conversationId |-> conversationId,
                           readBy |-> sock[h].user], SocketRoom(h))>>
            ELSE Append(emitted, own)
    /\ UNCHANGED <<socialVars, sock, activeUsers, lastSeenTimestamps, clock, dbVars, reqs>>


\* ------------------------------------------------------------- messages controller
NoRequest ==
    [kind |-> "none", pc |-> "idle", user |-> Undefined, arg |-> Undefined,
     conv |-> Undefined, participants |-> <<>>, other |-> Undefined,
     msg |-> Undefined, msgRead |-> FALSE, unread |-> {}, pushed |-> FALSE,
     isFollowing |-> FALSE, rejected |-> FALSE,
     last |-> {}, status |-> 0, data |-> {}, emitsBeforeResponse |-> 0,
     after |-> {}, msgsAtStart |-> 0, msgsAtEnd |-> 0]

\* The requests already answered, and the handler a new request starts in.
Answered == {q \in ReqIds : reqs[q].pc = "done"}
Arrives(r) ==
    /\ reqs[r].pc = "idle"
    /\ \A q \in ReqIds : q < r => reqs[q].pc # "idle"
Arrived(r, kind, u, arg) ==
    [NoRequest EXCEPT !.kind = kind, !.user = u, !.arg = arg, !.after = Answered,
                      !.msgsAtStart = nextMsgId]

\* res.status(status).json(data)
Respond(req, status, data) ==
    [req EXCEPT !.pc = "done", !.status = status, !.data = data,
                !.msgsAtEnd = nextMsgId]
\* The response of a handler whose emit calls stand before its res.status(...).json(...):
\* made is the sequence of the emits it made before the response went out.
RespondAfter(req, status, data, made) ==
    [Respond(req, status, data) EXCEPT !.emitsBeforeResponse = Len(made)]

\* Conversation.findById(conversationId)
FindById(conversationId) == {c \in conversations : c.id = conversationId}

\* A participant check that lets everybody through.
IncludesAnyone(participants, u) == TRUE
\* conversation.participants.includes(req.user.id)
Includes(participants, u) == \E i \in DOMAIN participants : participants[i] = u

\* conversation.participants.find((participant) => participant.toString() !== req.user.id)
OtherParticipant(participants, u) ==
    IF \E i \in DOMAIN participants : participants[i] # u
    THEN participants[CHOOSE i \in DOMAIN participants :
                         /\ participants[i] # u
                         /\ \A j \in DOMAIN participants : participants[j] # u => i <= j]
    ELSE Undefined

\* Conversation ids a client can name: the existing ones and one that does not exist.
ConvInputs == ConvIds \cup {Cardinality(conversations) + 1}

\* The first await of sendMessage / markMessagesAsRead: load the conversation, then
\* the 404 and 401 early returns.
Loaded(req, u, conversationId, nextPc) ==
    LET found == FindById(conversationId)
    IN IF found = {}
       THEN Respond(req, 404, {})
       ELSE LET conversation == CHOOSE c \in found : TRUE
            IN IF ~Includes(conversation.participants, u)
               THEN Respond(req, 401, {})
               ELSE [req EXCEPT !.pc = nextPc, !.conv = conversationId,
                                !.participants = conversation.participants]
LoadConversation(r, kind, u, conversationId, nextPc) ==
    reqs' = [reqs EXCEPT ![r] =
               Loaded(Arrived(r, kind, u, conversationId), u, conversationId, nextPc)]

\* MessageSchema: read defaults to false, timestamp to Date.now. Every message typed by
\* a user carries the text "text".
NewMessage(id, conversationId, senderId) ==
    [id |-> id, conversationId |-> conversationId, senderId |-> senderId, read |-> FALSE,
     text |-> "text", timestamp |-> clock]

\* ConversationSchema.lastMessage: {text, sender, timestamp}
LastMessage(text, sender, timestamp) ==
    [text |-> text, sender |-> sender, timestamp |-> timestamp]
\* A String path nothing was assigned to.
NoText == "undefined"
\* ConversationSchema on a document given its participants only: lastMessage.timestamp
\* defaults to Date.now. Both callers of Conversation.create pass a lastMessage as well.
NewConversation(id, participants) ==
    [id |-> id, participants |-> participants,
     lastMessage |-> LastMessage(NoText, Undefined, clock)]
\* conversation.lastMessage = {...}; await conversation.save()
SaveLastMessage(conversationId, lastMessage) ==
    {IF c.id = conversationId THEN [c EXCEPT !.lastMessage = lastMessage] ELSE c :
        c \in conversations}

\* sendMessage: Conversation.findById and the participant check
SendLoad(r, u, conversationId) ==
    /\ Arrives(r)
    /\ LoadConversation(r, "send", u, conversationId, "create")
    /\ UNCHANGED <<socialVars, sockVars, emitted, clock, dbVars>>

\* sendMessage: Message.create(messageData)
SendCreate(r) ==
    /\ reqs[r].kind = "send" /\ reqs[r].pc = "create"
    /\ LET message == NewMessage(nextMsgId + 1, reqs[r].conv, reqs[r].user)
       IN /\ messages' = messages \cup {message}
          /\ reqs' = [reqs EXCEPT ![r].pc = "save", ![r].msg = message.id,
                                  ![r].msgRead = message.read]
    /\ nextMsgId' = nextMsgId + 1
    /\ UNCHANGED <<socialVars, sockVars, emitted, clock, conversations>>

\* sendMessage: conversation.save() of the last-message summary
SendSave(r) ==
    /\ reqs[r].kind = "send" /\ reqs[r].pc = "save"
    /\ conversations' = SaveLastMessage(reqs[r].conv,
                                       LastMessage("text", reqs[r].user, clock))
    /\ reqs' = [reqs EXCEPT ![r].pc = "emit"]
    /\ UNCHANGED <<socialVars, sockVars, emitted, clock, messages, nextMsgId>>

\* emitNewMessage without the if (socketId) test: it emits to whatever the lookup gave.
emitNewMessageUnchecked(userId, message, origin) ==
    <<Emit("newMessage", InRoom(SocketRoom(MapGet(activeUsers, userId))), message, origin)>>
\* emitNewMessage that emits to every connected socket.
emitNewMessageToAll(userId, message, origin) ==
    IF MapHas(activeUsers, userId)
    THEN <<Emit("newMessage", Connected, message, origin)>>
    ELSE <<>>
\* emitNewMessage(io, userId, message): userId.toString() throws on undefined.
\* The emits it makes, as a sequence.
emitNewMessage(userId, message, origin) ==
    LET socketId == MapGet(activeUsers, userId)
    IN IF socketId # Undefined
       THEN <<Emit("newMessage", InRoom(SocketRoom(socketId)), message, origin)>>
       ELSE <<>>

\* sendMessage: the push to the other participant and the response
SendEmit(r) ==
    /\ reqs[r].kind = "send" /\ reqs[r].pc = "emit"
    /\ LET req == reqs[r]
           otherParticipantId == OtherParticipant(req.participants, req.user)
           formattedMessage == [id |-> req.msg, senderId |-> req.user,
                                read |-> req.msgRead, conversationId |-> req.conv]
       IN IF otherParticipantId = Undefined
          THEN /\ reqs' = [reqs EXCEPT ![r] = Respond(req, 500, {})]
               /\ UNCHANGED emitted
          ELSE LET made == emitNewMessage(otherParticipantId, formattedMessage,
                                          <<"req", r>>)
               IN /\ emitted' = emitted \o made
                  /\ reqs' = [reqs EXCEPT ![r] =
                        RespondAfter([req EXCEPT !.other = otherParticipantId,
                                                 !.pushed = MapHas(activeUsers,
                                                                   otherParticipantId)],
                                     201, {[id |-> req.msg, read |-> req.msgRead]}, made)]
    /\ UNCHANGED <<socialVars, sockVars, clock, dbVars>>

\* The filter without its senderId condition.
UnreadInConversation(conversationId, u) ==
    {m \in messages : m.conversationId = conversationId /\ ~m.read}
\* The filter without its read: false condition.
FromOthers(conversationId, u) ==
    {m \in messages : m.conversationId = conversationId /\ m.senderId # u}
\* The filter {conversationId, senderId: {$ne: req.user.id}, read: false}
UnreadFromOthers(conversationId, u) ==
    {m \in messages : m.conversationId = conversationId /\ m.senderId # u /\ ~m.read}

\* markMessagesAsRead: Conversation.findById and the participant check
MarkLoad(r, u, conversationId) ==
    /\ Arrives(r)
    /\ LoadConversation(r, "mark", u, conversationId, "find")
    /\ UNCHANGED <<socialVars, sockVars, emitted, clock, dbVars>>

\* markMessagesAsRead: unreadMessages = await Message.find({..., read: false})
MarkFind(r) ==
    /\ reqs[r].kind = "mark" /\ reqs[r].pc = "find"
    /\ reqs' = [reqs EXCEPT ![r].pc = "update",
                            ![r].unread = {m.id : m \in UnreadFromOthers(reqs[r].conv,
                                                                         reqs[r].user)}]
    /\ UNCHANGED <<socialVars, sockVars, emitted, clock, dbVars>>

\* An update that flips the flag of every message of the others, whatever it was.
UpdateManyToggle(conversationId, u) ==
    {IF m.conversationId = conversationId /\ m.senderId # u
     THEN [m EXCEPT !.read = ~m.read] ELSE m : m \in messages}
\* Message.updateMany(filter, { read: true })
UpdateManyRead(conversationId, u) ==
    {IF m \in UnreadFromOthers(conversationId, u) THEN [m EXCEPT !.read = TRUE] ELSE m :
        m \in messages}

\* markMessagesAsRead: await Message.updateMany(...)
MarkUpdate(r) ==
    /\ reqs[r].kind = "mark" /\ reqs[r].pc = "update"
    /\ messages' = UpdateManyRead(reqs[r].conv, reqs[r].user)
    /\ reqs' = [reqs EXCEPT ![r].pc = "emit"]
    /\ UNCHANGED <<socialVars, sockVars, emitted, clock, conversations, nextMsgId>>

\* A presence check that finds everybody online.
isAnyUserOnline(userId) == TRUE
\* isUserOnline(userId)
isUserOnline(userId) == MapHas(activeUsers, userId)
\* getLastSeen(userId): lastSeenTimestamps.get(userId) || null, null written Undefined
getLastSeen(userId) == MapGet(lastSeenTimestamps, userId)

\* A set of message ids as the sequence forEach visits (find returns them in id order).
RECURSIVE InOrder(_)
InOrder(ids) ==
    IF ids = {} THEN <<>>
    ELSE LET least == CHOOSE i \in ids : \A j \in ids : i <= j
         IN <<least>> \o InOrder(ids \ {least})

\* The read receipts of markMessagesAsRead: one emit per message found unread, to the
\* room named by the other participant's user id.
ReadReceipts(r, req, otherParticipantId) ==
    IF req.unread # {} /\ isUserOnline(otherParticipantId)
    THEN LET order == InOrder(req.unread)
         IN [i \in DOMAIN order |->
               Emit("messageRead", InRoom(UserRoom(otherParticipantId)),
                    [conversationId |-> req.conv, messageId |-> order[i],
                     readBy |-> req.user, timestamp |-> clock], <<"req", r>>)]
    ELSE <<>>

\* markMessagesAsRead: the read receipts and the response
MarkEmit(r) ==
    /\ reqs[r].kind = "mark" /\ reqs[r].pc = "emit"
    /\ LET req == reqs[r]
           otherParticipantId == OtherParticipant(req.participants, req.user)
       IN IF req.unread # {} /\ otherParticipantId = Undefined
          THEN /\ reqs' = [reqs EXCEPT ![r] = Respond(req, 500, {})]
               /\ UNCHANGED emitted
          ELSE LET made == ReadReceipts(r, req, otherParticipantId)
               IN /\ emitted' = emitted \o made
                  /\ reqs' = [reqs EXCEPT ![r] =
                        RespondAfter([req EXCEPT !.other = otherParticipantId,
                                                 !.pushed = req.unread # {}
                                                      /\ isUserOnline(otherParticipantId)],
                                     200, {[markedAsRead |-> Cardinality(req.unread)]},
                                     made)]
    /\ UNCHANGED <<socialVars, sockVars, clock, dbVars>>

\* ------------------------------------------------------------- deleteMessage
MessageInputs == 1..(nextMsgId + 1)

\* deleteMessage: Conversation.findById and the participant check
DeleteLoad(r, u, conversationId, messageId) ==
    /\ Arrives(r)
    /\ reqs' = [reqs EXCEPT ![r] =
          Loaded([Arrived(r, "delete", u, conversationId) EXCEPT !.msg = messageId],
                 u, conversationId, "findMessage")]
    /\ UNCHANGED <<socialVars, sockVars, emitted, clock, dbVars>>

\* deleteMessage: Message.findById(messageId) and the sender check
DeleteFind(r) ==
    /\ reqs[r].kind = "delete" /\ reqs[r].pc = "findMessage"
    /\ LET req == reqs[r]
           found == {m \in messages : m.id = req.msg}
       IN reqs' = [reqs EXCEPT ![r] =
            IF found = {} THEN Respond(req, 404, {})
            ELSE IF \E m \in found : m.senderId # req.user THEN Respond(req, 401, {})
            ELSE [req EXCEPT !.pc = "deleteOne"]]
    /\ UNCHANGED <<socialVars, sockVars, emitted, clock, dbVars>>

\* deleteMessage: await message.deleteOne()
DeleteOne(r) ==
    /\ reqs[r].kind = "delete" /\ reqs[r].pc = "deleteOne"
    /\ messages' = {m \in messages : m.id # reqs[r].msg}
    /\ reqs' = [reqs EXCEPT ![r].pc = "last"]
    /\ UNCHANGED <<socialVars, sockVars, emitted, clock, conversations, nextMsgId>>

\* Message.findOne({ conversationId }).sort({ timestamp: -1 }): the latest message of
\* the conversation (timestamps grow with the ids), as a set of at most one document.
LatestMessage(conversationId) ==
    LET inConversation == {m \in messages : m.conversationId = conversationId}
    IN {m \in inConversation : \A n \in inConversation : n.id <= m.id}

\* deleteMessage: the Message.findOne for the new summary
DeleteLast(r) ==
    /\ reqs[r].kind = "delete" /\ reqs[r].pc = "last"
    /\ reqs' = [reqs EXCEPT ![r].pc = "save", ![r].last = LatestMessage(reqs[r].conv)]
    /\ UNCHANGED <<socialVars, sockVars, emitted, clock, dbVars>>

\* deleteMessage: conversation.lastMessage = ...; await conversation.save()
DeleteSave(r) ==
    /\ reqs[r].kind = "delete" /\ reqs[r].pc = "save"
    /\ LET req == reqs[r]
           lastMessage ==
               IF req.last = {} THEN LastMessage("", req.user, clock)
               ELSE LET m == CHOOSE m \in req.last : TRUE
                    IN LastMessage(m.text, m.senderId, m.timestamp)
       IN conversations' = SaveLastMessage(req.conv, lastMessage)
    /\ reqs' = [reqs EXCEPT ![r].pc = "emit"]
    /\ UNCHANGED <<socialVars, sockVars, emitted, clock, messages, nextMsgId>>

\* io.sockets.adapter.rooms.get(name): the sockets of the room, {} for undefined
AdapterRoom(room) == InRoom(room)

\* deleteMessage: the notice to the other participant and the response. The room looked
\* up is the one named by the user id; io.to(socketId) is then given the Set found,
\* which names a room no socket is in.
DeleteEmit(r) ==
    /\ reqs[r].kind = "delete" /\ reqs[r].pc = "emit"
    /\ LET req == reqs[r]
           otherParticipantId == OtherParticipant(req.participants, req.user)
           socketId == IF otherParticipantId = Undefined THEN {}
                       ELSE AdapterRoom(UserRoom(otherParticipantId))
           made == IF socketId # {}
                   THEN <<Emit("messageDeleted", {},
                               [messageId |-> req.msg, conversationId |-> req.conv],
                               <<"req", r>>)>>
                   ELSE <<>>
       IN /\ emitted' = emitted \o made
          /\ reqs' = [reqs EXCEPT ![r] =
                RespondAfter([req EXCEPT !.other = otherParticipantId], 200,
                             {[id |-> req.msg]}, made)]
    /\ UNCHANGED <<socialVars, sockVars, clock, dbVars>>


\* Conversation.findOne({ participants: { $all: [req.user.id, userId] } })
FindOneBetween(u, userId) ==
    {c \in conversations : Includes(c.participants, u) /\ Includes(c.participants, userId)}

\* getOrCreateConversation: User.findById(userId), then Conversation.findOne
GetConvFind(r, u, userId) ==
    /\ Arrives(r)
    /\ LET req == Arrived(r, "fetch", u, userId)
           found == FindOneBetween(u, userId)
       IN reqs' = [reqs EXCEPT ![r] =
            IF userId \notin Users
            THEN Respond(req, 404, {})
            ELSE IF found = {}
                 THEN [req EXCEPT !.pc = "createConv"]
                 ELSE LET conversation ==
                            CHOOSE c \in found : \A d \in found : c.id <= d.id
                      IN [req EXCEPT !.pc = "messages", !.conv = conversation.id,
                                     !.participants = conversation.participants]]
    /\ UNCHANGED <<socialVars, sockVars, emitted, clock, dbVars>>

\* getOrCreateConversation: Conversation.create({ participants: [req.user.id, userId],
\* lastMessage: { text: "", sender: req.user.id, timestamp: Date.now() } })
GetConvCreate(r) ==
    /\ reqs[r].kind = "fetch" /\ reqs[r].pc = "createConv"
    /\ LET id == Cardinality(conversations) + 1
           participants == <<reqs[r].user, reqs[r].arg>>
       IN /\ conversations' = conversations \cup
                {[NewConversation(id, participants) EXCEPT
                     !.lastMessage = LastMessage("", reqs[r].user, clock)]}
          /\ reqs' = [reqs EXCEPT ![r].pc = "messages", ![r].conv = id,
                                  ![r].participants = participants]
    /\ UNCHANGED <<socialVars, sockVars, emitted, clock, messages, nextMsgId>>

\* getOrCreateConversation: Message.find({ conversationId }) and the response, which
\* lists every message of the conversation with its stored read flag.
GetConvMessages(r) ==
    /\ reqs[r].kind = "fetch" /\ reqs[r].pc = "messages"
    /\ reqs' = [reqs EXCEPT ![r] =
          Respond([reqs[r] EXCEPT
                      !.other = OtherParticipant(reqs[r].participants, reqs[r].user)],
                  200,
                  {[id |-> m.id, read |-> m.read] :
                      m \in {n \in messages : n.conversationId = reqs[r].conv}})]
    /\ UNCHANGED <<socialVars, sockVars, emitted, clock, dbVars>>

\* ------------------------------------------------------------- notifications
\* ObjectId.toString() is the id's string, which is how ids are written here. A
\* populated path holds the referenced document, and Document.toString() is the
\* document's inspect form, which is the string of no id.
InspectString(id) == 0 - id
RefToString(ref) == IF ref.populated THEN InspectString(ref.id) ELSE ref.id
ObjectId(id) == [id |-> id, populated |-> FALSE]
\* post.populate({ path: "comments.user" }) on one reference
Populate(ref) == [ref EXCEPT !.populated = TRUE]

\* The Notification schema gives read the default false.
NotificationDefaultRead == FALSE
\* Notification.create({recipient, sender, type, post, comment}): read is never passed.
NewNotification(id, recipient, sender, type, post, comment) ==
    [id |-> id, recipient |-> recipient, sender |-> sender, type |-> type,
     post |-> post, comment |-> comment, read |-> NotificationDefaultRead]
\* A new document's _id is fresh: here, above every id in the collection.
LastId(existing) ==
    IF existing = {} THEN 0
    ELSE CHOOSE i \in {n.id : n \in existing} : \A n \in existing : n.id <= i

\* One Notification.create call, and the calls a loop over recipients makes in order.
Call(recipient, type) == [recipient |-> recipient, type |-> type]
Calls(recipients, type) ==
    LET order == InOrder(recipients)
    IN [i \in DOMAIN order |-> Call(order[i], type)]

\* await Notification.create(...) rejects at the call numbered failAt of the request
\* (0: the database takes every write); the calls before it have resolved.
Rejects(todo, failAt) == failAt \in DOMAIN todo
Before(todo, failAt) == IF Rejects(todo, failAt) THEN SubSeq(todo, 1, failAt - 1) ELSE todo
WriteOutcomes == 0..(MaxMentions + 1)

\* The documents the resolved Notification.create calls add.
CreateAll(existing, todo, sender, post, comment) ==
    existing \cup
       {NewNotification(LastId(existing) + i, todo[i].recipient, sender, todo[i].type,
                        post, comment) : i \in DOMAIN todo}

PostIds == DOMAIN posts
PostInputs == PostIds \cup {Len(posts) + 1}
CommentInputs(p) == 1..(Len(posts[p].comments) + 1)
MentionSets == {S \in SUBSET Users : Cardinality(S) <= MaxMentions}
HandlesPostRequest ==
    /\ postOps < MaxPostOps
    /\ postOps' = postOps + 1

\* res.status(status).json(...) of a posts route; rejected: a Notification.create of
\* the request rejected.
NoResponse ==
    [kind |-> "none", user |-> Undefined, post |-> Undefined, comment |-> Undefined,
     status |-> 0, rejected |-> FALSE]
PostResponse(kind, u, p, c, status, rejected) ==
    [kind |-> kind, user |-> u, post |-> p, comment |-> c, status |-> status,
     rejected |-> rejected]

\* createPost
createPost(u, taggedUsers, failAt) ==
    /\ HandlesPostRequest
    /\ LET id == Len(posts) + 1
           notified == {userId \in taggedUsers : ~(userId = u)}
           todo == Calls(notified, "tag")
       IN /\ posts' = Append(posts, [user |-> ObjectId(u), likes |-> {}, comments |-> <<>>,
                                     taggedUsers |-> taggedUsers])
          /\ notifications' = CreateAll(notifications, Before(todo, failAt), u, id, Undefined)
          /\ postRes' = PostResponse("createPost", u, id, Undefined,
                                     IF Rejects(todo, failAt) THEN 500 ELSE 201,
                                     Rejects(todo, failAt))
    /\ UNCHANGED <<sockVars, emitted, clock, dbVars, reqs, following>>

\* likePost: Notification.create is awaited before post.save, inside the one try.
likePost(u, p, failAt) ==
    /\ HandlesPostRequest
    /\ IF p \notin PostIds
       THEN /\ postRes' = PostResponse("likePost", u, p, Undefined, 404, FALSE)
            /\ UNCHANGED <<posts, notifications>>
       ELSE LET post == posts[p]
                isLiked == u \in post.likes
                todo == IF RefToString(post.user) # u
                        THEN <<Call(post.user.id, "like")>> ELSE <<>>
            IN IF isLiked
               THEN /\ posts' = [posts EXCEPT ![p].likes = @ \ {u}]
                    /\ postRes' = PostResponse("likePost", u, p, Undefined, 200, FALSE)
                    /\ UNCHANGED notifications
               ELSE IF Rejects(todo, failAt)
               THEN /\ postRes' = PostResponse("likePost", u, p, Undefined, 500, TRUE)
                    /\ UNCHANGED <<posts, notifications>>
               ELSE /\ posts' = [posts EXCEPT ![p].likes = @ \cup {u}]
                    /\ notifications' = CreateAll(notifications, todo, u, p, Undefined)
                    /\ postRes' = PostResponse("likePost", u, p, Undefined, 200, FALSE)
    /\ UNCHANGED <<sockVars, emitted, clock, dbVars, reqs, following>>

NewComment(u, replyTo) == [user |-> ObjectId(u), likes |-> {}, replyTo |-> replyTo]

\* addComment: post.save stores the comment, then the Notification.create calls.
addComment(u, p, mentions, failAt) ==
    /\ HandlesPostRequest
    /\ IF p \notin PostIds
       THEN /\ postRes' = PostResponse("addComment", u, p, Undefined, 404, FALSE)
            /\ UNCHANGED <<posts, notifications>>
       ELSE LET post == posts[p]
                newComment == Len(post.comments) + 1
                owner == IF RefToString(post.user) # u THEN {post.user.id} ELSE {}
                mentionedUsers ==
                    {m \in mentions : ~(m = u \/ m = RefToString(post.user))}
                todo == Calls(owner, "comment") \o Calls(mentionedUsers, "tag")
            IN /\ posts' = [posts EXCEPT ![p].comments = Append(@, NewComment(u, Undefined))]
               /\ notifications' =
                    CreateAll(notifications, Before(todo, failAt), u, p, newComment)
               /\ postRes' = PostResponse("addComment", u, p, newComment,
                                          IF Rejects(todo, failAt) THEN 500 ELSE 200,
                                          Rejects(todo, failAt))
    /\ UNCHANGED <<sockVars, emitted, clock, dbVars, reqs, following>>

\* likeComment: Notification.create is awaited before post.save, inside the one try.
likeComment(u, p, c, failAt) ==
    /\ HandlesPostRequest
    /\ IF p \notin PostIds \/ c \notin DOMAIN posts[p].comments
       THEN /\ postRes' = PostResponse("likeComment", u, p, c, 404, FALSE)
            /\ UNCHANGED <<posts, notifications>>
       ELSE LET comment == posts[p].comments[c]
                isLiked == u \in comment.likes
                todo == IF RefToString(comment.user) # u
                        THEN <<Call(comment.user.id, "comment_like")>> ELSE <<>>
            IN IF isLiked
               THEN /\ posts' = [posts EXCEPT ![p].comments[c].likes = @ \ {u}]
                    /\ postRes' = PostResponse("likeComment", u, p, c, 200, FALSE)
                    /\ UNCHANGED notifications
               ELSE IF Rejects(todo, failAt)
               THEN /\ postRes' = PostResponse("likeComment", u, p, c, 500, TRUE)
                    /\ UNCHANGED <<posts, notifications>>
               ELSE /\ posts' = [posts EXCEPT ![p].comments[c].likes = @ \cup {u}]
                    /\ notifications' = CreateAll(notifications, todo, u, p, c)
                    /\ postRes' = PostResponse("likeComment", u, p, c, 200, FALSE)
    /\ UNCHANGED <<sockVars, emitted, clock, dbVars, reqs, following>>

\* replyToComment: the reply is saved, post.populate("comments.user") runs, and only
\* then is parentComment.user compared with req.user.id. A rejected create for the
\* comment owner is caught and the mentions still run; a rejected create for a mention
\* ends the loop in the outer catch, which answers 200 as well.
replyToComment(u, p, c, mentions, failAt) ==
    /\ HandlesPostRequest
    /\ IF p \notin PostIds \/ c \notin DOMAIN posts[p].comments
       THEN /\ postRes' = PostResponse("replyToComment", u, p, c, 404, FALSE)
            /\ UNCHANGED <<posts, notifications>>
       ELSE LET post == posts[p]
                newReply == Len(post.comments) + 1
                parentUser == Populate(post.comments[c].user)
                owner == IF RefToString(parentUser) # u THEN {parentUser.id} ELSE {}
                mentionedUsers ==
                    {m \in mentions : ~(m = u \/ m = RefToString(parentUser))}
                toOwner == Calls(owner, "comment_reply")
                toMentioned == Calls(mentionedUsers, "tag")
                todo == toOwner \o toMentioned
                resolved == IF failAt \in DOMAIN toOwner THEN toMentioned
                            ELSE Before(todo, failAt)
            IN /\ posts' = [posts EXCEPT ![p].comments = Append(@, NewComment(u, c))]
               /\ notifications' = CreateAll(notifications, resolved, u, p, newReply)
               /\ postRes' = PostResponse("replyToComment", u, p, newReply, 200,
                                          Rejects(todo, failAt))
    /\ UNCHANGED <<sockVars, emitted, clock, dbVars, reqs, following>>

\* ------------------------------------------------------------- notifications controller
NotificationInputs == 1..(LastId(notifications) + 1)

\* An update that writes the opposite of the flag found.
MarkReadToggle(n) == [n EXCEPT !.read = ~n.read]
\* notification.read = true; await notification.save()
MarkRead(n) == [n EXCEPT !.read = TRUE]

\* markAsRead
markAsRead(u, id) ==
    /\ HandlesPostRequest
    /\ LET found == {n \in notifications : n.id = id}
       IN IF found = {}
          THEN /\ postRes' = PostResponse("markAsRead", u, id, Undefined, 404, FALSE)
               /\ UNCHANGED notifications
          ELSE LET notification == CHOOSE n \in found : TRUE
               IN IF notification.recipient # u
                  THEN /\ postRes' = PostResponse("markAsRead", u, id, Undefined, 401, FALSE)
                       /\ UNCHANGED notifications
                  ELSE /\ notifications' =
                             (notifications \ {notification}) \cup {MarkRead(notification)}
                       /\ postRes' = PostResponse("markAsRead", u, id, Undefined, 200, FALSE)
    /\ UNCHANGED <<sockVars, emitted, clock, dbVars, reqs, following, posts>>

\* markAllAsRead: Notification.updateMany({ recipient, read: false }, { read: true })
markAllAsRead(u) ==
    /\ HandlesPostRequest
    /\ notifications' = {IF n.recipient = u /\ ~n.read THEN MarkRead(n) ELSE n :
                            n \in notifications}
    /\ postRes' = PostResponse("markAllAsRead", u, Undefined, Undefined, 200, FALSE)
    /\ UNCHANGED <<sockVars, emitted, clock, dbVars, reqs, following, posts>>

\* deleteNotification
deleteNotification(u, id) ==
    /\ HandlesPostRequest
    /\ LET found == {n \in notifications : n.id = id}
       IN IF found = {}
          THEN /\ postRes' = PostResponse("deleteNotification", u, id, Undefined, 404, FALSE)
               /\ UNCHANGED notifications
          ELSE IF \E n \in found : n.recipient # u
          THEN /\ postRes' = PostResponse("deleteNotification", u, id, Undefined, 401, FALSE)
               /\ UNCHANGED notifications
          ELSE /\ notifications' = notifications \ found
               /\ postRes' = PostResponse("deleteNotification", u, id, Undefined, 200, FALSE)
    /\ UNCHANGED <<sockVars, emitted, clock, dbVars, reqs, following, posts>>

\* The emit made without looking whether the Map has a socket id for the user.
emitNewNotificationUnchecked(userId, notification, origin) ==
    <<Emit("newNotification", InRoom(SocketRoom(MapGet(activeUsers, userId))), notification,
           origin)>>

\* emitNewNotification(io, userId, notification): the emits it makes.
emitNewNotification(userId, notification, origin) ==
    LET socketId == MapGet(activeUsers, userId)
    IN IF socketId # Undefined
       THEN <<Emit("newNotification", InRoom(SocketRoom(socketId)), notification, origin)>>
       ELSE <<>>

\* followUser: protect loads req.user with its following list, User.findOne finds the
\* user to follow; the 404 and 400 early returns; isFollowing.
FollowFind(r, u, target) ==
    /\ Arrives(r)
    /\ LET req == Arrived(r, "follow", u, target)
       IN reqs' = [reqs EXCEPT ![r] =
            IF target \notin Users THEN Respond(req, 404, {})
            ELSE IF target = u THEN Respond(req, 400, {})
            ELSE [req EXCEPT !.pc = "transaction", !.other = target,
                             !.isFollowing = <<u, target>> \in following]]
    /\ UNCHANGED <<socialVars, sockVars, emitted, clock, dbVars>>

\* The transaction going on to the push whether or not notification.save resolved.
FollowTransactionUnchecked(r, saved) ==
    /\ reqs[r].kind = "follow" /\ reqs[r].pc = "transaction"
    /\ LET req == reqs[r]
           id == LastId(notifications) + 1
       IN IF req.isFollowing
          THEN /\ following' = following \ {<<req.user, req.other>>}
               /\ reqs' = [reqs EXCEPT ![r] =
                     Respond(req, 200, {[isFollowing |-> FALSE]})]
               /\ UNCHANGED notifications
          ELSE /\ following' = following \cup {<<req.user, req.other>>}
               /\ notifications' =
                     IF saved
                     THEN notifications \cup
                            {NewNotification(id, req.other, req.user, "follow", Undefined,
                                             Undefined)}
                     ELSE notifications
               /\ reqs' = [reqs EXCEPT ![r].pc = "emit", ![r].msg = id,
                                       ![r].rejected = ~saved]
    /\ UNCHANGED <<sockVars, emitted, clock, dbVars, posts, postOps, postRes>>

\* followUser: the transaction. Unfollow answers here; follow goes on to populate the
\* notification's sender. When notification.save rejects (saved = FALSE) the catch aborts
\* the transaction and rethrows to the outer catch, which answers 500.
FollowTransaction(r, saved) ==
    /\ reqs[r].kind = "follow" /\ reqs[r].pc = "transaction"
    /\ LET req == reqs[r]
           isFollowing == req.isFollowing
           id == LastId(notifications) + 1
       IN IF isFollowing
          THEN /\ following' = following \ {<<req.user, req.other>>}
               /\ reqs' = [reqs EXCEPT ![r] =
                     Respond(req, 200, {[isFollowing |-> FALSE]})]
               /\ UNCHANGED notifications
          ELSE IF ~saved
          THEN /\ reqs' = [reqs EXCEPT ![r] =
                     Respond([req EXCEPT !.rejected = TRUE], 500, {})]
               /\ UNCHANGED <<following, notifications>>
          ELSE /\ following' = following \cup {<<req.user, req.other>>}
               /\ notifications' = notifications \cup
                     {NewNotification(id, req.other, req.user, "follow", Undefined, Undefined)}
               /\ reqs' = [reqs EXCEPT ![r].pc = "emit", ![r].msg = id]
    /\ UNCHANGED <<sockVars, emitted, clock, dbVars, posts, postOps, postRes>>

\* followUser: the push to the followed user and the response
FollowEmit(r) ==
    /\ reqs[r].kind = "follow" /\ reqs[r].pc = "emit"
    /\ LET req == reqs[r]
           made == emitNewNotification(req.other,
                      [id |-> req.msg, type |-> "follow", user |-> req.user, read |-> FALSE],
                      <<"req", r>>)
       IN /\ emitted' = emitted \o made
          /\ reqs' = [reqs EXCEPT ![r] =
                RespondAfter([req EXCEPT !.pushed = MapHas(activeUsers, req.other)], 200,
                             {[isFollowing |-> TRUE]}, made)]
    /\ UNCHANGED <<socialVars, sockVars, clock, dbVars>>

\* ------------------------------------------------------------- sharePost
ShareText == "Shared a meme with you"

\* sharePost with recipients = [recipientId]: Post.findById and User.findById(post.user)
ShareLoad(r, u, postId, recipientId) ==
    /\ Arrives(r)
    /\ LET req == [Arrived(r, "share", u, postId) EXCEPT !.other = recipientId]
       IN reqs' = [reqs EXCEPT ![r] =
            IF postId \notin PostIds THEN Respond(req, 404, {})
            ELSE [req EXCEPT !.pc = "findConv"]]
    /\ UNCHANGED <<socialVars, sockVars, emitted, clock, dbVars>>

\* sharePost: Conversation.findOne({ participants: { $all: [req.user.id, recipientId] } })
ShareFind(r) ==
    /\ reqs[r].kind = "share" /\ reqs[r].pc = "findConv"
    /\ LET req == reqs[r]
           found == FindOneBetween(req.user, req.other)
       IN reqs' = [reqs EXCEPT ![r] =
            IF found = {}
            THEN [req EXCEPT !.pc = "createConv"]
            ELSE LET conversation == CHOOSE c \in found : \A d \in found : c.id <= d.id
                 IN [req EXCEPT !.pc = "create", !.conv = conversation.id,
                                !.participants = conversation.participants]]
    /\ UNCHANGED <<socialVars, sockVars, emitted, clock, dbVars>>

\* sharePost: Conversation.create({ participants, lastMessage })
ShareCreateConv(r) ==
    /\ reqs[r].kind = "share" /\ reqs[r].pc = "createConv"
    /\ LET id == Cardinality(conversations) + 1
           participants == <<reqs[r].user, reqs[r].other>>
       IN /\ conversations' = conversations \cup
                {[NewConversation(id, participants) EXCEPT
                     !.lastMessage = LastMessage(ShareText, reqs[r].user, clock)]}
          /\ reqs' = [reqs EXCEPT ![r].pc = "create", ![r].conv = id,
                                  ![r].participants = participants]
    /\ UNCHANGED <<socialVars, sockVars, emitted, clock, messages, nextMsgId>>

\* sharePost: Message.create({ conversationId, senderId, text, sharedPost, timestamp })
ShareCreate(r) ==
    /\ reqs[r].kind = "share" /\ reqs[r].pc = "create"
    /\ LET message == [NewMessage(nextMsgId + 1, reqs[r].conv, reqs[r].user) EXCEPT
                          !.text = ShareText]
       IN /\ messages' = messages \cup {message}
          /\ reqs' = [reqs EXCEPT ![r].pc = "save", ![r].msg = message.id,
                                  ![r].msgRead = message.read]
    /\ nextMsgId' = nextMsgId + 1
    /\ UNCHANGED <<socialVars, sockVars, emitted, clock, conversations>>

\* sharePost: conversation.lastMessage = ...; await conversation.save()
ShareSave(r) ==
    /\ reqs[r].kind = "share" /\ reqs[r].pc = "save"
    /\ conversations' = SaveLastMessage(reqs[r].conv,
                                       LastMessage(ShareText, reqs[r].user, clock))
    /\ reqs' = [reqs EXCEPT ![r].pc = "emit"]
    /\ UNCHANGED <<socialVars, sockVars, emitted, clock, messages, nextMsgId>>

\* sharePost: emitNewMessage(io, recipientId, formattedMessage) with read: false, and
\* the response
ShareEmit(r) ==
    /\ reqs[r].kind = "share" /\ reqs[r].pc = "emit"
    /\ LET req == reqs[r]
           formattedMessage == [id |-> req.msg, senderId |-> req.user, read |-> FALSE,
                                conversationId |-> req.conv]
           made == emitNewMessage(req.other, formattedMessage, <<"req", r>>)
       IN /\ emitted' = emitted \o made
          /\ reqs' = [reqs EXCEPT ![r] =
                RespondAfter([req EXCEPT !.pushed = MapHas(activeUsers, req.other)], 200,
                             {[sharedWith |-> 1]}, made)]
    /\ UNCHANGED <<socialVars, sockVars, clock, dbVars>>

\* ------------------------------------------------------------- specifications
\* The server process has just started: nothing in memory, no socket yet.
InitProcess ==
    /\ sock = [h \in Handles |-> FreshSocket]
    /\ activeUsers = {}
    /\ lastSeenTimestamps = {}
    /\ emitted = <<>>
    /\ clock = 1
    /\ clientEvents = 0
    /\ reqs = [r \in ReqIds |-> NoRequest]
    /\ postOps = 0
    /\ postRes = NoResponse

\* The database outlives the process. Users 1 and 2 have a conversation.
\* Its lastMessage is the summary of the latest message of the messages found, all of
\* them written before this process started (time 0), or the one user 1 created it with.
InitConversations ==
    conversations =
       {[id |-> 1, participants |-> <<1, 2>>,
         lastMessage |-> IF messages = {} THEN LastMessage("", 1, 0)
                         ELSE LastMessage("text", 1, 0)]}

\* Messages user 1 sent in it earlier, each still unread or already read by user 2.
InitialMessages ==
    UNION {{{[NewMessage(i, 1, 1) EXCEPT !.read = flags[i], !.timestamp = 0] : i \in 1..k} :
               flags \in [1..k -> BOOLEAN]} : k \in 0..MaxInitMsgs}

\* A post of user 1 with one comment by user 2, nobody following anybody.
InitialPosts ==
    <<[user |-> ObjectId(1), likes |-> {}, comments |-> <<NewComment(2, Undefined)>>,
       taggedUsers |-> {}]>>

EmptySocial ==
    /\ posts = <<>>
    /\ notifications = {}
    /\ following = {}

ValidCredentials == {cred \in Credentials : ResolveUser(cred) # Undefined}

\* Socket lifecycle: every handshake outcome, every socket event.
SockCredentials == {cred \in Credentials : cred.id \in 0..SockUsers \cup {GhostId}}
Init ==
    /\ InitProcess
    /\ messages = {}
    /\ nextMsgId = 0
    /\ InitConversations
    /\ EmptySocial

Next ==
    \/ \E h \in 1..MaxSockets, cred \in SockCredentials : Authenticate(h, cred)
    \/ \E h \in 1..MaxSockets : Connection(h)
    \/ \E h \in 1..MaxSockets : Disconnect(h)
    \/ \E h \in 1..MaxSockets : GetOnlineUsers(h)
    \/ \E h \in 1..MaxSockets, c \in ConvInputs, u \in 1..SockUsers : MessagesRead(h, c, u)

Spec == Init /\ [][Next]_vars

\* Read state: the messages routes, interleaved at their awaits, beside one socket.
ReadInit ==
    /\ InitProcess
    /\ messages \in InitialMessages
    /\ nextMsgId = Cardinality(messages)
    /\ InitConversations
    /\ EmptySocial

ReadNext ==
    \/ \E h \in 1..ReadSockets, cred \in ValidCredentials : Authenticate(h, cred)
    \/ \E h \in 1..ReadSockets : Connection(h)
    \/ \E h \in 1..ReadSockets : Disconnect(h)
    \/ \E h \in 1..ReadSockets, c \in ConvInputs, u \in Users : MessagesRead(h, c, u)
    \/ \E r \in ReqIds, u \in Users, c \in ConvInputs : SendLoad(r, u, c)
    \/ \E r \in ReqIds : SendCreate(r)
    \/ \E r \in ReqIds : SendSave(r)
    \/ \E r \in ReqIds : SendEmit(r)
    \/ \E r \in ReqIds, u \in Users, c \in ConvInputs : MarkLoad(r, u, c)
    \/ \E r \in ReqIds : MarkFind(r)
    \/ \E r \in ReqIds : MarkUpdate(r)
    \/ \E r \in ReqIds : MarkEmit(r)
    \/ \E r \in ReqIds, u \in Users, o \in Users \cup {GhostId} : GetConvFind(r, u, o)
    \/ \E r \in ReqIds : GetConvCreate(r)
    \/ \E r \in ReqIds : GetConvMessages(r)

ReadSpec == ReadInit /\ [][ReadNext]_vars

\* Routing: pushes of sendMessage and followUser while sockets come and go. User 1 may
\* follow user 2 already.
InitialFollowing == {{}, {<<1, 2>>}}
RouteInit ==
    /\ InitProcess
    /\ messages = {}
    /\ nextMsgId = 0
    /\ InitConversations
    /\ posts = <<>>
    /\ notifications = {}
    /\ following \in InitialFollowing

RouteNext ==
    \/ \E h \in 1..MaxSockets, cred \in ValidCredentials : Authenticate(h, cred)
    \/ \E h \in 1..MaxSockets : Connection(h)
    \/ \E h \in 1..MaxSockets : Disconnect(h)
    \/ \E r \in 1..RouteRequests, u \in Users, c \in ConvInputs : SendLoad(r, u, c)
    \/ \E r \in 1..RouteRequests : SendCreate(r)
    \/ \E r \in 1..RouteRequests : SendSave(r)
    \/ \E r \in 1..RouteRequests : SendEmit(r)
    \/ \E r \in 1..RouteRequests, u \in Users, t \in Users \cup {GhostId} : FollowFind(r, u, t)
    \/ \E r \in 1..RouteRequests, saved \in BOOLEAN : FollowTransaction(r, saved)
    \/ \E r \in 1..RouteRequests : FollowEmit(r)

RouteSpec == RouteInit /\ [][RouteNext]_vars

\* Notification fan-out: the posts routes and followUser, beside one socket of the
\* author of the post or of the comment the database starts with.
NotifyCredentials == ValidCredentials \cap SockCredentials
NotifyInit ==
    /\ InitProcess
    /\ messages = {}
    /\ nextMsgId = 0
    /\ InitConversations
    /\ posts = InitialPosts
    /\ notifications = {}
    /\ following = {}

NotifyNext ==
    \/ \E h \in 1..ReadSockets, cred \in NotifyCredentials : Authenticate(h, cred)
    \/ \E h \in 1..ReadSockets : Connection(h)
    \/ \E h \in 1..ReadSockets : Disconnect(h)
    \/ \E u \in Users, tagged \in MentionSets, failAt \in WriteOutcomes :
          createPost(u, tagged, failAt)
    \/ \E u \in Users, p \in PostInputs, failAt \in WriteOutcomes : likePost(u, p, failAt)
    \/ \E u \in Users, p \in PostInputs, mentions \in MentionSets, failAt \in WriteOutcomes :
          addComment(u, p, mentions, failAt)
    \/ \E u \in Users, p \in PostIds, failAt \in WriteOutcomes :
          \E c \in CommentInputs(p) : likeComment(u, p, c, failAt)
    \/ \E u \in Users, p \in PostIds, mentions \in MentionSets, failAt \in WriteOutcomes :
          \E c \in CommentInputs(p) : replyToComment(u, p, c, mentions, failAt)
    \/ \E r \in 1..RouteRequests, u \in Users, t \in Users \cup {GhostId} : FollowFind(r, u, t)
    \/ \E r \in 1..RouteRequests, saved \in BOOLEAN : FollowTransaction(r, saved)
    \/ \E r \in 1..RouteRequests : FollowEmit(r)

NotifySpec == NotifyInit /\ [][NotifyNext]_vars

\* Message store: every handler that writes messages, interleaved at its awaits, beside
\* one socket. The database starts with the conversation, its messages and one post.
StoreInit ==
    /\ InitProcess
    /\ messages \in InitialMessages
    /\ nextMsgId = Cardinality(messages)
    /\ InitConversations
    /\ posts = InitialPosts
    /\ notifications = {}
    /\ following = {}

StoreNext ==
    \/ \E h \in 1..ReadSockets, cred \in NotifyCredentials : Authenticate(h, cred)
    \/ \E h \in 1..ReadSockets : Connection(h)
    \/ \E h \in 1..ReadSockets : Disconnect(h)
    \/ \E h \in 1..ReadSockets, c \in ConvIds, u \in 1..SockUsers : MessagesRead(h, c, u)
    \/ \E r \in ReqIds, u \in Users, c \in ConvInputs : SendLoad(r, u, c)
    \/ \E r \in ReqIds : SendCreate(r)
    \/ \E r \in ReqIds : SendSave(r)
    \/ \E r \in ReqIds : SendEmit(r)
    \/ \E r \in ReqIds, u \in Users, c \in ConvInputs : MarkLoad(r, u, c)
    \/ \E r \in ReqIds : MarkFind(r)
    \/ \E r \in ReqIds : MarkUpdate(r)
    \/ \E r \in ReqIds : MarkEmit(r)
    \/ \E r \in ReqIds, u \in Users, c \in ConvInputs, m \in MessageInputs :
          DeleteLoad(r, u, c, m)
    \/ \E r \in ReqIds : DeleteFind(r)
    \/ \E r \in ReqIds : DeleteOne(r)
    \/ \E r \in ReqIds : DeleteLast(r)
    \/ \E r \in ReqIds : DeleteSave(r)
    \/ \E r \in ReqIds : DeleteEmit(r)
    \/ \E r \in ReqIds, u \in Users, p \in PostInputs, t \in 1..SockUsers :
          ShareLoad(r, u, p, t)
    \/ \E r \in ReqIds : ShareFind(r)
    \/ \E r \in ReqIds : ShareCreateConv(r)
    \/ \E r \in ReqIds : ShareCreate(r)
    \/ \E r \in ReqIds : ShareSave(r)
    \/ \E r \in ReqIds : ShareEmit(r)

StoreSpec == StoreInit /\ [][StoreNext]_vars

\* Last-message summary: the two handlers of the messages routes that write it,
\* interleaved at their awaits.
SummaryNext ==
    \/ \E r \in ReqIds, u \in Users, c \in ConvInputs : SendLoad(r, u, c)
    \/ \E r \in ReqIds : SendCreate(r)
    \/ \E r \in ReqIds : SendSave(r)
    \/ \E r \in ReqIds : SendEmit(r)
    \/ \E r \in ReqIds, u \in Users, c \in ConvInputs, m \in MessageInputs :
          DeleteLoad(r, u, c, m)
    \/ \E r \in ReqIds : DeleteFind(r)
    \/ \E r \in ReqIds : DeleteOne(r)
    \/ \E r \in ReqIds : DeleteLast(r)
    \/ \E r \in ReqIds : DeleteSave(r)
    \/ \E r \in ReqIds : DeleteEmit(r)

SummarySpec == StoreInit /\ [][SummaryNext]_vars

\* Inbox: the posts routes and followUser, which create notifications, and the
\* notifications routes. The database starts with the post and with like notifications
\* of user 2 for its author, each read or not.
InitialNotifications ==
    UNION {{{[NewNotification(i, 1, 2, "like", 1, Undefined) EXCEPT !.read = flags[i]] :
                i \in 1..k} : flags \in [1..k -> BOOLEAN]} : k \in 0..MaxInitNotifications}
InboxInit ==
    /\ InitProcess
    /\ messages = {}
    /\ nextMsgId = 0
    /\ InitConversations
    /\ posts = InitialPosts
    /\ notifications \in InitialNotifications
    /\ following = {}

InboxNext ==
    \/ \E u \in Users, tagged \in MentionSets, failAt \in WriteOutcomes :
          createPost(u, tagged, failAt)
    \/ \E u \in Users, p \in PostInputs, failAt \in WriteOutcomes : likePost(u, p, failAt)
    \/ \E u \in Users, p \in PostInputs, mentions \in MentionSets, failAt \in WriteOutcomes :
          addComment(u, p, mentions, failAt)
    \/ \E u \in Users, p \in PostIds, failAt \in WriteOutcomes :
          \E c \in CommentInputs(p) : likeComment(u, p, c, failAt)
    \/ \E u \in Users, p \in PostIds, mentions \in MentionSets, failAt \in WriteOutcomes :
          \E c \in CommentInputs(p) : replyToComment(u, p, c, mentions, failAt)
    \/ \E r \in 1..RouteRequests, u \in Users, t \in Users \cup {GhostId} : FollowFind(r, u, t)
    \/ \E r \in 1..RouteRequests, saved \in BOOLEAN : FollowTransaction(r, saved)
    \/ \E r \in 1..RouteRequests : FollowEmit(r)
    \/ \E u \in Users, id \in NotificationInputs : markAsRead(u, id)
    \/ \E u \in Users : markAllAsRead(u)
    \/ \E u \in Users, id \in NotificationInputs : deleteNotification(u, id)

InboxSpec == InboxInit /\ [][InboxNext]_vars

\* Presence: sockets of the users connect and disconnect, nothing else happens.
PresenceNext ==
    \/ \E h \in Handles, cred \in NotifyCredentials : Authenticate(h, cred)
    \/ \E h \in Handles : Connection(h)
    \/ \E h \in Handles : Disconnect(h)

PresenceSpec == Init /\ [][PresenceNext]_vars

\* Presence with failing transports: as above, and an open socket may stop taking writes
\* before it disconnects.
FaultNext ==
    \/ PresenceNext
    \/ \E h \in Handles : TransportFails(h)

FaultSpec == Init /\ [][FaultNext]_vars

\* Follow requests in flight together, interleaved at their awaits, beside one socket.
FollowNext ==
    \/ \E h \in 1..ReadSockets, cred \in NotifyCredentials : Authenticate(h, cred)
    \/ \E h \in 1..ReadSockets : Connection(h)
    \/ \E h \in 1..ReadSockets : Disconnect(h)
    \/ \E r \in ReqIds, u \in Users, t \in Users \cup {GhostId} : FollowFind(r, u, t)
    \/ \E r \in ReqIds, saved \in BOOLEAN : FollowTransaction(r, saved)
    \/ \E r \in ReqIds : FollowEmit(r)

FollowSpec == RouteInit /\ [][FollowNext]_vars

\* ------------------------------------------------------------- session store
\* The handles the session store holds for a user.
Lookup(u) == {e[2] : e \in {x \in activeUsers : x[1] = u}}

\* C1 (stale-disconnect guard): the disconnect of a socket that is no longer the one
\* registered for its user leaves that user's entry as it is, so after connect(U,h1),
\* connect(U,h2), disconnect(h1) the store still maps U to h2.
C1_StaleDisconnectGuard ==
    [][\A h \in Handles :
          (/\ sock[h].state = "open"
           /\ sock'[h].state = "closed"
           /\ Lookup(sock[h].user) # {}
           /\ h \notin Lookup(sock[h].user))
          => Lookup(sock[h].user)' = Lookup(sock[h].user)]_vars

\* C2 (single session): the store never holds two handles for one user, and the step
\* that registers a connection for U leaves U looked up to that connection alone.
AtMostOneHandle == \A u \in Users : Cardinality(Lookup(u)) <= 1
RegistrationWins ==
    \A h \in Handles :
        (sock[h].state = "authed" /\ sock'[h].state = "open")
        => Lookup(sock[h].user)' = {h}
C2_SingleSession == [](AtMostOneHandle) /\ [][RegistrationWins]_vars

\* Two sockets of one user are open and the store holds the one registered second.
C2_Witness ==
    \E h1, h2 \in Handles :
        /\ h1 # h2
        /\ sock[h1].state = "open" /\ sock[h2].state = "open"
        /\ sock[h1].user = sock[h2].user
        /\ Lookup(sock[h2].user) = {h2}
        /\ \E i, j \in DOMAIN emitted :
              /\ i < j
              /\ emitted[i].ev = "welcome" /\ emitted[i].to = {h1}
              /\ emitted[j].ev = "welcome" /\ emitted[j].to = {h2}

\* C3 (refused handshake): a socket whose credential is missing, fails verification or
\* names no user is refused with an error, is never registered, never receives or causes
\* an emit, and the step that refuses it changes neither map nor emits anything.
Acceptable(cred) == cred.kind = "jwt" /\ cred.id \in Users
RefusedUntouched ==
    \A h \in Handles :
        (sock[h].state # "fresh" /\ ~Acceptable(sock[h].cred))
        => /\ sock[h].state = "refused"
           /\ sock[h].err # ""
           /\ \A u \in Users : h \notin Lookup(u)
           /\ \A i \in DOMAIN emitted :
                 h \notin emitted[i].to /\ emitted[i].origin # SocketRoom(h)
RefusalChangesNothing ==
    \A h \in Handles :
        (sock[h].state = "fresh" /\ sock'[h].state = "refused")
        => UNCHANGED <<activeUsers, lastSeenTimestamps, emitted>>
C3_RefusedHandshake == [](RefusedUntouched) /\ [][RefusalChangesNothing]_vars

\* A handshake has been refused while another socket is open and registered.
C3_Witness ==
    \E h, g \in Handles :
        /\ g < h
        /\ sock[h].state = "refused"
        /\ sock[g].state = "open" /\ Lookup(sock[g].user) = {g}
        /\ emitted[Len(emitted)].ev = "onlineUsers"

\* ------------------------------------------------------------- read state
MarkRequests == {r \in ReqIds : reqs[r].kind = "mark" /\ reqs[r].status = 200}
FromRequest(e, r) == e.origin = <<"req", r>>
\* The messageRead emits about message m that a request made.
ReceiptsFor(m) ==
    {i \in DOMAIN emitted :
        /\ emitted[i].ev = "messageRead"
        /\ emitted[i].origin[1] = "req"
        /\ emitted[i].payload.messageId = m}

\* C4 (atomic mark-read): of two mark-conversation-read requests, at most one counts a
\* given message as flipped, and a message gets at most one messageRead emit.
C4_AtomicMarkRead ==
    /\ \A r1, r2 \in MarkRequests : r1 # r2 => reqs[r1].unread \cap reqs[r2].unread = {}
    /\ \A m \in 1..nextMsgId : Cardinality(ReceiptsFor(m)) <= 1

\* C5 (read idempotence): a mark-read request that arrives after an earlier one by the
\* same reader on the same conversation was answered, no message having been created
\* since that earlier one arrived, flips nothing, reports markedAsRead = 0 and emits no
\* messageRead.
InARow(r1, r2) ==
    /\ r1 \in MarkRequests /\ r2 \in MarkRequests
    /\ reqs[r1].user = reqs[r2].user /\ reqs[r1].conv = reqs[r2].conv
    /\ r1 \in reqs[r2].after
    /\ reqs[r1].msgsAtStart = reqs[r2].msgsAtEnd
C5_ReadIdempotence ==
    \A r1, r2 \in ReqIds :
        InARow(r1, r2)
        => /\ reqs[r2].unread = {}
           /\ reqs[r2].data = {[markedAsRead |-> 0]}
           /\ \A i \in DOMAIN emitted : ~FromRequest(emitted[i], r2)

\* The first call flipped a message and emitted its receipt, the second is answered.
C5_Witness ==
    \E r1, r2 \in ReqIds :
        /\ InARow(r1, r2)
        /\ reqs[r1].unread # {}
        /\ \E i \in DOMAIN emitted : FromRequest(emitted[i], r1)

\* C6 (read receipts reach the author): when the author is online as the request-path
\* handler emits, the author's registered connection receives exactly one messageRead
\* for each message the request flipped, and no other connection receives it.
C6_ReceiptsReachAuthor ==
    \A r \in MarkRequests :
        reqs[r].pushed
        => \A m \in reqs[r].unread :
              \E h \in Handles :
                 /\ sock[h].user = reqs[r].other
                 /\ \A i \in ReceiptsFor(m) :
                       FromRequest(emitted[i], r) => emitted[i].to = {h}
                 /\ Cardinality({i \in ReceiptsFor(m) : FromRequest(emitted[i], r)}) = 1

\* C7 (live path persists): when the server has handled a socket's messagesRead
\* {conversationId, userId}, every message of that conversation authored by someone
\* other than the emitting user is read.
C7_LivePathPersists ==
    [][\A h \in Handles, c \in ConvInputs, u \in Users :
          MessagesRead(h, c, u)
          => \A m \in messages' :
                (m.conversationId = c /\ m.senderId # sock[h].user) => m.read]_vars

\* C8 (drop is not an error): a send to a participant who has no session-store entry
\* is answered 201 with the message read = false, makes no emit, leaves the store as
\* it was, and a conversation fetch by that participant made after the answer lists
\* the message, while it is stored unread, with read = false.
DroppedSends ==
    {s \in ReqIds :
        /\ reqs[s].kind = "send" /\ reqs[s].pc = "done"
        /\ reqs[s].msg # Undefined
        /\ OtherParticipant(reqs[s].participants, reqs[s].user) # Undefined
        /\ ~reqs[s].pushed}
FetchesAfter(s) ==
    {f \in ReqIds :
        /\ reqs[f].kind = "fetch" /\ reqs[f].status = 200
        /\ reqs[f].user = OtherParticipant(reqs[s].participants, reqs[s].user)
        /\ reqs[f].conv = reqs[s].conv
        /\ s \in reqs[f].after}
DropIsNotAnError ==
    \A s \in DroppedSends :
        /\ reqs[s].status = 201
        /\ reqs[s].data = {[id |-> reqs[s].msg, read |-> FALSE]}
        /\ \A i \in DOMAIN emitted : ~FromRequest(emitted[i], s)
        /\ \A f \in FetchesAfter(s) : \A m \in messages :
              (m.id = reqs[s].msg /\ ~m.read) => [id |-> m.id, read |-> FALSE] \in reqs[f].data
PushKeepsStore ==
    \A r \in ReqIds :
        (reqs[r].kind = "send" /\ reqs[r].pc = "emit" /\ reqs'[r].pc = "done")
        => UNCHANGED <<activeUsers, lastSeenTimestamps>>
C8_DropIsNotAnError == [](DropIsNotAnError) /\ [][PushKeepsStore]_vars

\* User 1's send to the offline user 2 was dropped and user 2 then fetched the message.
C8_Witness ==
    \E s \in DroppedSends : \E f \in FetchesAfter(s) :
        [id |-> reqs[s].msg, read |-> FALSE] \in reqs[f].data

\* ------------------------------------------------------------- routing
Pushes == {"newMessage", "newNotification"}

\* C9 (routing): a newMessage or newNotification push for target user T goes to the
\* one handle the session store holds for T as the push is made, and to no other
\* connection: T is not the acting user and the handle is a socket of T.
PushGoesToRegisteredHandle ==
    \A i \in (Len(emitted) + 1)..Len(emitted') :
        emitted'[i].ev \in Pushes
        => LET r == emitted'[i].origin[2]
               target == reqs'[r].other
           IN /\ target # reqs'[r].user
              /\ Lookup(target) # {}
              /\ emitted'[i].to = Lookup(target)
              /\ \A h \in emitted'[i].to : sock[h].state = "open" /\ sock[h].user = target
C10_NoSelfNotification ==
    /\ \A n \in notifications : n.recipient # n.sender
    /\ \A i \in DOMAIN emitted :
          emitted[i].ev = "newNotification"
          => \A h \in emitted[i].to : sock[h].user # emitted[i].payload.user

\* ------------------------------------------------------------- notification writes
\* C11 (notification failure is non-fatal): when the write of the Notification record
\* rejects during a like, comment-like or follow request, the like is on the post (or
\* comment), the follow is stored, and the request does not answer 500.
LikeSurvivesRejection ==
    (postOps' # postOps /\ postRes'.rejected /\ postRes'.kind = "likePost")
    => /\ postRes'.status # 500
       /\ postRes'.user \in posts'[postRes'.post].likes
CommentLikeSurvivesRejection ==
    (postOps' # postOps /\ postRes'.rejected /\ postRes'.kind = "likeComment")
    => /\ postRes'.status # 500
       /\ postRes'.user \in posts'[postRes'.post].comments[postRes'.comment].likes
FollowSurvivesRejection ==
    \A r \in ReqIds :
        (reqs'[r].kind = "follow" /\ reqs'[r].rejected /\ ~reqs[r].rejected)
        => /\ reqs'[r].status # 500
           /\ <<reqs'[r].user, reqs'[r].other>> \in following'
C11_NotificationFailureNonFatal ==
    [][LikeSurvivesRejection /\ CommentLikeSurvivesRejection /\ FollowSurvivesRejection]_vars

\* C12 (fan-out for every kind): when a like, comment, comment_like, comment_reply or
\* tag Notification is created for a recipient who has a registered connection, the
\* handler that created it makes exactly one newNotification emit for it, to that
\* connection.
PostKinds == {"like", "comment", "comment_like", "comment_reply", "tag"}
PushesFor(n) ==
    {i \in (Len(emitted) + 1)..Len(emitted') :
        /\ emitted'[i].ev = "newNotification"
        /\ emitted'[i].payload.id = n.id
        /\ emitted'[i].to = Lookup(n.recipient)}
EveryKindIsPushed ==
    \A n \in notifications' \ notifications :
        (n.type \in PostKinds /\ isUserOnline(n.recipient))
        => Cardinality(PushesFor(n)) = 1
C12_FanOutEveryKind == [][EveryKindIsPushed]_vars

\* C13 (durable-first ordering): every newNotification push stands for a Notification
\* record that is already stored, and a request whose notification write rejected has
\* made no emit.
Stored(e) ==
    \E n \in notifications :
        /\ n.id = e.payload.id
        /\ n.type = e.payload.type
        /\ n.sender = e.payload.user
        /\ \A h \in e.to : sock[h].user = n.recipient
C13_DurableFirst ==
    /\ \A i \in DOMAIN emitted : emitted[i].ev = "newNotification" => Stored(emitted[i])
    /\ \A r \in ReqIds :
          reqs[r].rejected => \A i \in DOMAIN emitted : ~FromRequest(emitted[i], r)

\* A stored follow notification has been pushed to an open socket of its recipient.
C13_Witness ==
    \E i \in DOMAIN emitted :
        /\ emitted[i].ev = "newNotification"
        /\ emitted[i].to # {}
        /\ Stored(emitted[i])

\* ------------------------------------------------------------- follow
\* C14 (follow notification): a follow request that goes on to answer isFollowing: true
\* stores exactly one Notification(type = follow, recipient = B, sender = A); as it
\* answers it makes exactly one newNotification emit, to B's registered connection, if
\* the session store has an entry for B, and none otherwise; an unfollow stores no
\* notification and emits nothing.
NewEmits == (Len(emitted) + 1)..Len(emitted')
FollowStoresOne(r) ==
    (reqs[r].pc = "transaction" /\ reqs'[r].pc = "emit")
    => /\ \E n \in notifications' :
             /\ notifications' \ notifications = {n}
             /\ n.type = "follow" /\ n.recipient = reqs[r].other /\ n.sender = reqs[r].user
       /\ NewEmits = {}
FollowPushesOnce(r) ==
    (reqs[r].pc = "emit" /\ reqs'[r].pc = "done")
    => /\ reqs'[r].data = {[isFollowing |-> TRUE]}
       /\ notifications' = notifications
       /\ IF isUserOnline(reqs[r].other)
          THEN /\ Cardinality(NewEmits) = 1
               /\ \A i \in NewEmits :
                     /\ emitted'[i].ev = "newNotification"
                     /\ emitted'[i].to = Lookup(reqs[r].other)
                     /\ emitted'[i].payload.id = reqs[r].msg
          ELSE NewEmits = {}
UnfollowIsSilent(r) ==
    (reqs[r].pc = "transaction" /\ reqs'[r].pc = "done" /\ reqs'[r].status = 200)
    => /\ reqs'[r].data = {[isFollowing |-> FALSE]}
       /\ notifications' = notifications
       /\ NewEmits = {}
C14_FollowNotification ==
    [][\A r \in ReqIds : reqs[r].kind = "follow"
          => FollowStoresOne(r) /\ FollowPushesOnce(r) /\ UnfollowIsSilent(r)]_vars

\* A follow was answered after its push went to the followed user's socket.
C14_Witness ==
    \E r \in ReqIds :
        /\ reqs[r].kind = "follow" /\ reqs[r].pc = "done"
        /\ reqs[r].data = {[isFollowing |-> TRUE]}
        /\ reqs[r].pushed
        /\ \E i \in DOMAIN emitted :
              /\ FromRequest(emitted[i], r)
              /\ emitted[i].to = Lookup(reqs[r].other)
              /\ emitted[i].to # {}

\* ------------------------------------------------------------- message store
\* C15 (message-deletion notice): as deleteMessage answers for a message its author
\* deleted, the registered connection of the other participant receives exactly one
\* messageDeleted {messageId, conversationId} if the session store has an entry for
\* that participant, nothing is emitted if it has none, and the request answers 200.
DeletionNotice(r) ==
    (reqs[r].kind = "delete" /\ reqs[r].pc = "emit" /\ reqs'[r].pc = "done")
    => LET otherParticipantId == OtherParticipant(reqs[r].participants, reqs[r].user)
       IN /\ reqs'[r].status = 200
          /\ IF isUserOnline(otherParticipantId)
             THEN /\ Cardinality(NewEmits) = 1
                  /\ \A i \in NewEmits :
                        /\ emitted'[i].ev = "messageDeleted"
                        /\ emitted'[i].to = Lookup(otherParticipantId)
                        /\ emitted'[i].payload = [messageId |-> reqs[r].msg,
                                                  conversationId |-> reqs[r].conv]
             ELSE NewEmits = {}
C15_DeletionNotice == [][\A r \in ReqIds : DeletionNotice(r)]_vars

\* C16 (monotonic read flag): in every step of the send, share, mark-read and delete
\* handlers and of the socket events, a message that has read = true keeps it, and a
\* message that is new in the store has read = false.
StoredIds == {m.id : m \in messages}
ReadStaysRead ==
    \A m \in messages : \A n \in messages' : (n.id = m.id /\ m.read) => n.read
CreatedUnread ==
    \A n \in messages' : n.id \notin StoredIds => ~n.read
C16_MonotonicRead == [][ReadStaysRead /\ CreatedUnread]_vars

\* A mark-read flipped a message, and a send or share that arrived after it was answered
\* has stored its own message: the first is still read, the new one unread.
C16_Witness ==
    \E r \in MarkRequests, q \in ReqIds :
        /\ reqs[r].unread # {}
        /\ \E m \in messages : m.id \in reqs[r].unread /\ m.read
        /\ reqs[q].kind \in {"send", "share"} /\ reqs[q].pc = "done"
        /\ r \in reqs[q].after
        /\ \E n \in messages : n.id = reqs[q].msg /\ ~n.read

\* C17 (bulk mark-read frame): the write of markMessagesAsRead by user X on conversation
\* C removes and adds no message, changes nothing but the read flag, changes it only on
\* messages of C authored by the other participant, and leaves every conversation, with
\* its lastMessage summary, as it was; the other steps of the handler write nothing.
SameButRead(m, n) == [n EXCEPT !.read = m.read] = m
MarkFrame(r) ==
    (reqs[r].kind = "mark" /\ reqs'[r] # reqs[r])
    => /\ conversations' = conversations
       /\ {n.id : n \in messages'} = StoredIds
       /\ \A m \in messages : \A n \in messages' :
             n.id = m.id
             => /\ SameButRead(m, n)
                /\ n # m => /\ reqs[r].pc = "update"
                            /\ m.conversationId = reqs[r].conv
                            /\ m.senderId # reqs[r].user
                            /\ m.senderId = OtherParticipant(reqs[r].participants,
                                                             reqs[r].user)
C17_MarkReadFrame == [][\A r \in ReqIds : MarkFrame(r)]_vars

\* A mark-read flipped a message of the other participant while the conversation held
\* an unread message of the reader, which is still unread.
C17_Witness ==
    \E r \in MarkRequests :
        /\ \E n \in messages : n.id \in reqs[r].unread /\ n.read
        /\ \E m \in messages :
              /\ m.conversationId = reqs[r].conv
              /\ m.senderId = reqs[r].user
              /\ ~m.read

\* ------------------------------------------------------------- inbox
\* C18 (one-way notification state): in every step a notification that is new in the
\* collection has read = false and one that has read = true keeps it; markAllAsRead
\* leaves every notification of its user read, and changes nothing when they all were.
NotificationIds == {n.id : n \in notifications}
NotificationCreatedUnread ==
    \A n \in notifications' : n.id \notin NotificationIds => ~n.read
NotificationStaysRead ==
    \A m \in notifications : \A n \in notifications' : (n.id = m.id /\ m.read) => n.read
MarkAllIsIdempotent ==
    (postOps' # postOps /\ postRes'.kind = "markAllAsRead")
    => /\ \A n \in notifications' : n.recipient = postRes'.user => n.read
       /\ (\A m \in notifications : m.recipient = postRes'.user => m.read)
          => notifications' = notifications
C18_NotificationOneWay ==
    [][NotificationCreatedUnread /\ NotificationStaysRead /\ MarkAllIsIdempotent]_vars

\* A notification created by a comment has been marked read by markAllAsRead.
C18_Witness ==
    /\ postRes.kind = "markAllAsRead"
    /\ \E n \in notifications :
          n.recipient = postRes.user /\ n.type = "comment" /\ n.read

\* ------------------------------------------------------------- presence
\* C19 (presence alternation): of the userConnected / userDisconnected broadcasts about
\* one user that one connection received, no two that follow one another are of the
\* same kind.
PresenceEvents == {"userConnected", "userDisconnected"}
PresenceSeen(o, u) ==
    {i \in DOMAIN emitted :
        /\ emitted[i].ev \in PresenceEvents
        /\ emitted[i].payload.userId = u
        /\ o \in emitted[i].to}
C19_PresenceAlternation ==
    \A o \in Handles, u \in Users :
        \A i, j \in PresenceSeen(o, u) :
            (i < j /\ ~\E k \in PresenceSeen(o, u) : i < k /\ k < j)
            => emitted[i].ev # emitted[j].ev

\* C20 (last-seen bookkeeping): no user is in the online set and has a lastSeen
\* timestamp at once; a connection of U's socket leaves getLastSeen(U) null, a
\* disconnect of U's socket leaves it stamped with the time of the disconnect, and no
\* other step changes it, so it is non-null exactly for the users whose latest
\* connection event is a disconnect.
NeverOnlineWithLastSeen ==
    \A u \in Users : ~(isUserOnline(u) /\ getLastSeen(u) # Undefined)
Connects(u) ==
    \E h \in Handles : sock[h].state = "authed" /\ sock'[h].state = "open" /\ sock[h].user = u
Disconnects(u) ==
    \E h \in Handles : sock[h].state = "open" /\ sock'[h].state = "closed" /\ sock[h].user = u
LastSeenFollowsEvents ==
    \A u \in Users :
        IF Connects(u)
        THEN MapGet(lastSeenTimestamps', u) = Undefined /\ MapHas(activeUsers', u)
        ELSE IF Disconnects(u)
        THEN MapGet(lastSeenTimestamps', u) = clock /\ ~MapHas(activeUsers', u)
        ELSE MapGet(lastSeenTimestamps', u) = getLastSeen(u)
C20_LastSeenBookkeeping == [](NeverOnlineWithLastSeen) /\ [][LastSeenFollowsEvents]_vars

\* A user disconnected the first socket and is connected again on the second: online,
\* with no lastSeen.
C20_Witness ==
    \E h, g \in Handles :
        /\ sock[h].state = "closed" /\ sock[g].state = "open"
        /\ sock[h].user = sock[g].user
        /\ emitted[Len(emitted)].origin = SocketRoom(g)
        /\ isUserOnline(sock[g].user)
        /\ getLastSeen(sock[g].user) = Undefined

\* C21 (online snapshot): every onlineUsers payload, sent after the handshake or in
\* answer to getOnlineUsers, is the set of the users the session store has an entry for
\* as it is sent, so the one sent after the handshake holds the connecting user; it goes
\* to the connecting or requesting socket alone, and so does welcome.
OnlineNow == {u \in Users : MapHas(activeUsers', u)}
SnapshotIsKeySet ==
    \A i \in NewEmits :
        emitted'[i].ev \in {"onlineUsers", "welcome"}
        => /\ emitted'[i].origin[1] = "sid"
           /\ emitted'[i].to = {emitted'[i].origin[2]}
           /\ sock'[emitted'[i].origin[2]].state = "open"
           /\ emitted'[i].ev = "onlineUsers" => emitted'[i].payload.users = OnlineNow
SnapshotHoldsConnectingUser ==
    \A h \in Handles :
        (sock[h].state = "authed" /\ sock'[h].state = "open")
        => /\ \E i \in NewEmits : emitted'[i].ev = "welcome" /\ emitted'[i].to = {h}
           /\ \E i \in NewEmits :
                 /\ emitted'[i].ev = "onlineUsers" /\ emitted'[i].to = {h}
                 /\ sock[h].user \in emitted'[i].payload.users
C21_OnlineSnapshot == [][SnapshotIsKeySet /\ SnapshotHoldsConnectingUser]_vars

\* Two users are online on a socket each; one asked with getOnlineUsers and was answered
\* with both, after the snapshot its handshake was answered with.
C21_Witness ==
    /\ clientEvents > 0
    /\ \E h, g \in Handles :
          /\ h # g /\ sock[h].state = "open" /\ sock[g].state = "open"
          /\ sock[h].user # sock[g].user
          /\ emitted[Len(emitted)].ev = "onlineUsers"
          /\ emitted[Len(emitted)].to = {h}
          /\ emitted[Len(emitted)].payload.users = {sock[h].user, sock[g].user}
          /\ \E i \in 1..(Len(emitted) - 1) :
                emitted[i].ev = "onlineUsers" /\ emitted[i].to = {h}

\* C22 (presence broadcast audience): the registration of a socket of U makes one
\* userConnected(U) emit, received by every other open socket and not by the one being
\* registered; its disconnect makes one userDisconnected(U, t) emit, received by every
\* other open socket, t naming the lastSeen timestamp that the same step stored for U.
OpenBeside(h) == {g \in Handles \ {h} : sock[g].state = "open"}
PresenceEmits(ev) == {i \in NewEmits : emitted'[i].ev = ev}
ConnectedAudience ==
    \A h \in Handles :
        (sock[h].state = "authed" /\ sock'[h].state = "open")
        => /\ Cardinality(PresenceEmits("userConnected")) = 1
           /\ PresenceEmits("userDisconnected") = {}
           /\ \A i \in PresenceEmits("userConnected") :
                 /\ emitted'[i].payload.userId = sock[h].user
                 /\ emitted'[i].to = OpenBeside(h)
                 /\ h \notin emitted'[i].to
DisconnectedAudience ==
    \A h \in Handles :
        (sock[h].state = "open" /\ sock'[h].state = "closed")
        => /\ Cardinality(PresenceEmits("userDisconnected")) = 1
           /\ PresenceEmits("userConnected") = {}
           /\ \A i \in PresenceEmits("userDisconnected") :
                 /\ emitted'[i].payload.userId = sock[h].user
                 /\ emitted'[i].to = OpenBeside(h)
                 /\ MapHas(lastSeenTimestamps', sock[h].user)
                 /\ emitted'[i].payload.timestamp =
                       toISOString(MapGet(lastSeenTimestamps', sock[h].user))
C22_PresenceAudience == [][ConnectedAudience /\ DisconnectedAudience]_vars

\* A socket connected beside an open one, which received userConnected, and then
\* disconnected, of which the open one received userDisconnected.
C22_Witness ==
    \E h, g \in Handles :
        /\ h # g /\ sock[h].state = "closed" /\ sock[g].state = "open"
        /\ \E i, j \in DOMAIN emitted :
              /\ i < j
              /\ emitted[i].ev = "userConnected" /\ emitted[i].origin = SocketRoom(h)
              /\ emitted[i].to = {g}
              /\ emitted[j].ev = "userDisconnected" /\ emitted[j].origin = SocketRoom(h)
              /\ emitted[j].to = {g}
              /\ emitted[j].payload.timestamp = toISOString(getLastSeen(sock[h].user))

\* C23 (read-receipt gating): when the author of the messages has no session-store entry
\* as markMessagesAsRead answers, the step emits nothing, the messages the request found
\* unread are stored with read = true, and the answer is 200 with their count; whatever
\* the author's sockets did before that step, the request does not answer an error.
ReceiptGate(r) ==
    (reqs[r].kind = "mark" /\ reqs[r].pc = "emit" /\ reqs'[r].pc = "done")
    => LET author == OtherParticipant(reqs[r].participants, reqs[r].user)
       IN author # Undefined
          => /\ reqs'[r].status = 200
             /\ reqs'[r].data = {[markedAsRead |-> Cardinality(reqs[r].unread)]}
             /\ messages' = messages
             /\ \A m \in messages : m.id \in reqs[r].unread => m.read
             /\ ~MapHas(activeUsers, author) => NewEmits = {}
C23_ReceiptGating == [][\A r \in ReqIds : ReceiptGate(r)]_vars

\* The author connected and disconnected before the request answered: a message was
\* flipped, the request answered 200 and made no emit.
C23_Witness ==
    \E r \in MarkRequests : \E h \in Handles :
        /\ reqs[r].unread # {}
        /\ reqs[r].data = {[markedAsRead |-> Cardinality(reqs[r].unread)]}
        /\ sock[h].state = "closed" /\ sock[h].user = reqs[r].other
        /\ ~reqs[r].pushed
        /\ \A i \in DOMAIN emitted : ~FromRequest(emitted[i], r)
        /\ \A m \in messages : m.id \in reqs[r].unread => m.read

\* C24 (fan-out after the response): every newMessage or newNotification push of a
\* sendMessage or followUser request is made when the record it stands for is stored and
\* when the response of that request has gone out, so no request has made an emit before
\* its response.
Committed(e) ==
    IF e.ev = "newMessage"
    THEN \E m \in messages : m.id = e.payload.id /\ m.conversationId = e.payload.conversationId
    ELSE Stored(e)
C24_FanOutAfterResponse ==
    \A i \in DOMAIN emitted :
        emitted[i].ev \in Pushes
        => /\ Committed(emitted[i])
           /\ reqs[emitted[i].origin[2]].emitsBeforeResponse = 0

\* C25 (two distinct participants): every Conversation record has exactly two
\* participants and they are two users; a getOrCreateConversation with the caller's own
\* id, and a sharePost to the caller, create no conversation.
C25_TwoDistinctParticipants ==
    \A c \in conversations :
        /\ Len(c.participants) = 2
        /\ c.participants[1] # c.participants[2]

\* C26 (presence broadcast isolation): when a userConnected or userDisconnected
\* broadcast has three open sockets as its audience and the write to one of them fails,
\* the other two receive the event, and the step applies the session-store update of the
\* connecting or disconnecting user.
Audience(h) == {g \in Handles \ {h} : sock[g].state = "open"}
Failing(h) == {g \in Audience(h) : sock[g].broken}
BroadcastIsolated ==
    \A h \in Handles :
        LET connects == sock[h].state = "authed" /\ sock'[h].state = "open"
            disconnects == sock[h].state = "open" /\ sock'[h].state = "closed"
        IN ((connects \/ disconnects) /\ Failing(h) # {})
           => /\ \E i \in NewEmits :
                    /\ emitted'[i].ev \in PresenceEvents
                    /\ emitted'[i].payload.userId = sock[h].user
                    /\ emitted'[i].to = Audience(h) \ Failing(h)
              /\ connects => (MapGet(activeUsers', sock[h].user) = h
                              /\ ~MapHas(lastSeenTimestamps', sock[h].user))
              /\ disconnects => (~MapHas(activeUsers', sock[h].user)
                                 /\ MapGet(lastSeenTimestamps', sock[h].user) = clock)
ReadByOtherParticipant(c, reader, author) ==
    /\ \E conv \in conversations :
          /\ conv.id = c
          /\ Includes(conv.participants, reader)
          /\ Includes(conv.participants, author)
    /\ \E m \in messages' : m.conversationId = c /\ m.senderId = author /\ m.read
LiveReceiptAuthorized ==
    \A i \in NewEmits :
        (emitted'[i].ev = "messageRead" /\ emitted'[i].origin[1] = "sid")
        => \A g \in emitted'[i].to :
              sock[g].user # emitted'[i].payload.readBy
              => ReadByOtherParticipant(emitted'[i].payload.conversationId,
                                        emitted'[i].payload.readBy, sock[g].user)
C27_LivePathAuthorization == [][LiveReceiptAuthorized]_vars

\* C28 (non-participants are rejected without effect): a sendMessage, markMessagesAsRead
\* or deleteMessage request of a user who is not a participant of the conversation, and a
\* deleteMessage of a participant for a message of another author, is answered 401 in
\* the step that finds this out, and that step creates, flips and deletes no message,
\* leaves every conversation with its lastMessage as it was and emits nothing.
Outsider(c, u) == \A i \in DOMAIN c.participants : c.participants[i] # u
AnsweredUnauthorized(r) ==
    /\ reqs'[r].pc = "done"
    /\ reqs'[r].status = 401
    /\ UNCHANGED <<messages, nextMsgId, conversations, emitted>>
RejectedWithoutEffect(r) ==
    /\ (/\ reqs[r].pc = "idle"
        /\ reqs'[r].kind \in {"send", "mark", "delete"}
        /\ \E c \in conversations : c.id = reqs'[r].arg /\ Outsider(c, reqs'[r].user))
       => AnsweredUnauthorized(r)
    /\ (/\ reqs[r].kind = "delete" /\ reqs[r].pc = "findMessage"
        /\ reqs'[r] # reqs[r]
        /\ \E m \in messages : m.id = reqs[r].msg /\ m.senderId # reqs[r].user)
       => AnsweredUnauthorized(r)
C28_OutsidersRejected == [][\A r \in ReqIds : RejectedWithoutEffect(r)]_vars

\* User 3 tried to send to the conversation of users 1 and 2 and user 2 tried to delete
\* a message of user 1: both were answered 401 and the message is stored.
C28_Witness ==
    \E r, q \in ReqIds :
        /\ reqs[r].kind = "send" /\ reqs[r].status = 401 /\ reqs[r].user = 3
        /\ reqs[q].kind = "delete" /\ reqs[q].status = 401 /\ reqs[q].user = 2
        /\ reqs[q].participants = <<1, 2>>
        /\ \E m \in messages : m.id = reqs[q].msg /\ m.senderId = 1
        /\ \A i \in DOMAIN emitted : emitted[i].origin[1] # "req"

\* C29 (concurrent follows): two follow requests of A for B that both found A not
\* following B leave A following B once, at most one follow Notification of A for B
\* and at most one newNotification push between them.
ConcurrentFollows(r1, r2) ==
    /\ r1 # r2
    /\ reqs[r1].kind = "follow" /\ reqs[r2].kind = "follow"
    /\ reqs[r1].pc = "done" /\ reqs[r2].pc = "done"
    /\ reqs[r1].status = 200 /\ reqs[r2].status = 200
    /\ reqs[r1].user = reqs[r2].user /\ reqs[r1].other = reqs[r2].other
    /\ ~reqs[r1].isFollowing /\ ~reqs[r2].isFollowing
FollowNotifications(a, b) ==
    {n \in notifications : n.type = "follow" /\ n.sender = a /\ n.recipient = b}
C29_ConcurrentFollows ==
    \A r1, r2 \in ReqIds :
        ConcurrentFollows(r1, r2)
        => /\ <<reqs[r1].user, reqs[r1].other>> \in following
           /\ Cardinality(FollowNotifications(reqs[r1].user, reqs[r1].other)) <= 1
           /\ Cardinality({i \in DOMAIN emitted :
                              /\ emitted[i].ev = "newNotification"
                              /\ emitted[i].origin \in {<<"req", r1>>, <<"req", r2>>}}) <= 1

\* C30 (last-message summary): when no sendMessage, sharePost or deleteMessage request is
\* in flight, the lastMessage.text of every conversation is the text of the latest
\* message stored in it, and the empty string when it holds none.
Quiescent == \A r \in ReqIds : reqs[r].pc \in {"idle", "done"}
SummaryIsLatest(c) ==
    IF LatestMessage(c.id) = {}
    THEN c.lastMessage.text = ""
    ELSE \A m \in LatestMessage(c.id) : c.lastMessage.text = m.text
C30_LastMessageSummary ==
    Quiescent => \A c \in conversations : SummaryIsLatest(c)

====
